---- MODULE Spec2Model ----
(***************************************************************************)
(* A model of package logging (YijinLiu/logging): the asynchronous log     *)
(* pipeline of logging.go (logText -> logCh -> processLogs) and the log    *)
(* redirector of redirect.go (Write -> l.logCh -> writeLog -> file,        *)
(* rotation, "latest" symlink, recycling).                                 *)
(*                                                                         *)
(* Two specifications share the definitions:                               *)
(*   Spec     the pipeline: caller goroutines, processLogs, writeLog, on a *)
(*            disk that does not fail;                                     *)
(*   SpecRot  the redirector's disk side: NewLogRedirector and the write   *)
(*            cycles of writeLog on a disk whose operations may fail.      *)
(***************************************************************************)
EXTENDS Integers, Sequences, FiniteSets, TLC

(***************************************************************************)
(* Bounds of the model.                                                    *)
(***************************************************************************)
\* Capacity of logCh.  The program makes it 10000 (logging.go:41); the
\* model scales it down so that "full" is reached.
LogChCap == 2
\* Capacity of l.logCh, the value of flag -log-chan-size (redirect.go:31).
LogChanSize == 1
\* Number of logText calls in a run.
MaxSubmits == 3
\* Number of redirectToNewFile calls in a run (cap on l.numLogFiles).
MaxLogFiles == 2
\* Flag -max-log-file-size (redirect.go:26), scaled down.
MaxLogFileSize == 20
\* Flag -max-log-dir-size (redirect.go:28), scaled down.
MaxLogDirSize == 30
\* Largest len(data) of one write cycle in SpecRot.
MaxChunk == 2
\* Cap on l.bytesWritten and on a file's size in SpecRot.
MaxBytes == 24
\* Number of disk operations that fail in a run of SpecRot.
MaxFaults == 2
\* SpecLines: lines written to the log directory.
MaxLinesL == 2
\* SpecLines: log files in the directory.
MaxFilesL == 2
\* SpecLines: seconds that pass.
MaxTicks == 1
\* SpecLines: the largest numBytes asked of LogLines.
MaxBudget == 60
\* SpecNlog: the largest n of a call site.
MaxN == 3
\* SpecNlog: Nlog calls in a run.
MaxCalls == 5

(***************************************************************************)
(* Program constants.                                                      *)
(***************************************************************************)
\* l.logFileName == "": no file has been opened successfully.
NoFile == 0
\* A regular file that is in the log directory before this process starts.
OldFile == -1
\* A regular file in the log directory whose name is not a log file's
\* (logFileNameRe does not match it).
OtherFile == -2
\* The time at which the log directory's first file is created: that of the
\* first file name of TestLogFileStartTs.
Epoch == 1525213976
\* Length of a chunk the logger hands to Write (one formatted line).
LineLen == 1
\* Length of a diagnostic message written through writeToCStdout.
DiagLen == 1
\* Size Readdir reports for the "latest" symlink.
SymlinkSize == 1

Threads == {"t1", "t2"}
Texts == {"", "a", "b"}

VARIABLES
    \* logging.go
    logCh,                   \* the buffered channel of logEntry
    logChClosed,             \* close(logCh) has happened
    droppedLogLines,         \* uint32, atomic
    pcProcessLogs,           \* position of goroutine processLogs
    le,                      \* processLogs: the entry being handled
    dropped,                 \* processLogs: result of the SwapUint32
    lastLogLine,             \* processLogs local
    lastLogLineRepeatCount,  \* processLogs local
    logOutput,               \* output of the standard logger: "stderr" or "lr"
    \* redirect.go
    lr,                      \* the global *LogRedirector: "nil" or "set"
    lrLogCh,                 \* l.logCh, the channel of chunks
    lrLogChClosed,           \* close(l.logCh) has happened
    pcWriteLog,              \* position of goroutine writeLog
    data,                    \* writeLog's coalescing buffer
    l,                       \* LogRedirector fields: logFileName, bytesWritten, numLogFiles
    fs,                      \* the log directory and the C stdout stream
    ioFaults,                \* environment: disk operations that may still fail
    \* callers
    pcT,                     \* position of each caller goroutine
    callT,                   \* the exported call each caller is in
    proc,                    \* "running", "exited" or the panic that ended the process
    \* observations (history variables)
    out,                     \* lines processLogs has handed to the logger, and where they went
    disk,                    \* chunks writeLog has written to the log stream
    handled,                 \* texts processLogs has taken through the dedup test
    nSubmitted,              \* logText calls
    nDropped,                \* logText calls that took the default branch
    closeReturned,           \* a Close() call has returned
    cycle,                   \* what the last write cycle of writeLog did
    \* the log directory as LogLines reads it
    clock,                   \* time.Now().Unix()
    startTime,               \* l.startTime.Unix()
    seqNo,                   \* l.numLogFiles of the process that writes the directory
    entries,                 \* the log files, oldest first: name, lines, and when created
    query,                   \* the LogLines call made: startTs, numBytes
    ret,                     \* what it returned, and the files it opened
    \* Nlog
    nlogMap,                 \* "file:line" => count
    nlogN,                   \* the n that each call site passes
    nlogT,                   \* each caller's Nlog call: its key, level and cnt
    nlogCalls,               \* history: the calls that have gone through incNLogCnt
    nlogLogged               \* history: the calls whose Vlog reached logText

chanVars == <<logCh, logChClosed, droppedLogLines>>
consVars == <<pcProcessLogs, le, dropped, lastLogLine, lastLogLineRepeatCount>>
redirVars == <<lr, lrLogCh, lrLogChClosed, logOutput>>
writerVars == <<pcWriteLog, data>>
diskVars == <<l, fs, cycle, ioFaults>>
threadVars == <<pcT, callT>>
histVars == <<out, disk, handled, nSubmitted, nDropped, closeReturned>>
lineVars == <<clock, startTime, seqNo, entries, query, ret>>
nlogVars == <<nlogMap, nlogN, nlogT, nlogCalls, nlogLogged>>
vars == <<chanVars, consVars, redirVars, writerVars, diskVars, threadVars, proc, histVars,
          lineVars, nlogVars>>

NoEntry == [text |-> "", level |-> 0]
\* What the last write cycle did; from rotated on, what its
\* recycleOldLogFiles saw: the Readdir snapshot snap, the dirSize it summed
\* (total), l.logFileName (active) and the files whose os.Remove failed.
NoCycle == [before |-> 0, n |-> 0, wrote |-> 0, statted |-> FALSE, size |-> 0,
            rotated |-> FALSE, opened |-> FALSE,
            total |-> 0, snap |-> [files |-> <<>>, order |-> <<>>, latest |-> 0],
            active |-> 0, rmFail |-> {}]

\* No LogLines call has been made, or it returned nil.
NoQuery == [startTs |-> 0, numBytes |-> 0, made |-> FALSE]
NoRet == [lines |-> <<>>, read |-> <<>>]

\* The call sites of Nlog, by the key getFileLinePrefix gives them.
Sites == {"[m.go:1] ", "[m.go:2] "}

\* No Nlog call in progress.
NoCall == [site |-> "", level |-> 0, cnt |-> 0]

\* nlogMap = make(map[string]int): a key not set reads as 0.  No Nlog call
\* has been made.
NoNlog ==
    /\ nlogMap = [s \in Sites |-> 0]
    /\ nlogN = [s \in Sites |-> 0]
    /\ nlogT = [t \in Threads |-> NoCall]
    /\ nlogCalls = {} /\ nlogLogged = {}

\* The variables of the log directory's content, where they play no part.
NoLines ==
    /\ clock = 0 /\ startTime = 0 /\ seqNo = 0 /\ entries = <<>>
    /\ query = NoQuery /\ ret = NoRet


(***************************************************************************)
(* The disk side of the redirector, as functions on st = [l, fs]:          *)
(*   st.l   the LogRedirector fields logFileName, bytesWritten,            *)
(*          numLogFiles (a file is named by the sequence number that       *)
(*          redirectToNewFile put in its name; NoFile is "");              *)
(*   st.fs  files: name -> size of the regular files of the log directory, *)
(*          order: their names in ascending modification time,             *)
(*          latest: the target of the "latest" symlink (NoFile: absent),   *)
(*          stdout: the file C's stdout stream writes to (NoFile: the      *)
(*          stream was closed by a failed freopen),                        *)
(*          ptrFault: os.Remove of an existing pointer or os.Symlink       *)
(*          failed in the last redirect that opened a file.                *)
(***************************************************************************)
Touch(order, f) == SelectSeq(order, LAMBDA x : x # f) \o <<f>>

Drop(order, f) == SelectSeq(order, LAMBDA x : x # f)

RECURSIVE SumSizes(_, _)
SumSizes(files, S) ==
    IF S = {} THEN 0
    ELSE LET x == CHOOSE y \in S : TRUE
         IN files[x] + SumSizes(files, S \ {x})

\* for _, fi := range fis { dirSize += fi.Size() }: every directory entry
\* counts, the symlink included.
DirSize(fsr) ==
    SumSizes(fsr.files, DOMAIN fsr.files)
      + (IF fsr.latest # NoFile THEN SymlinkSize ELSE 0)

\* n bytes reach the file behind C's stdout (nothing when the stream is
\* closed or its file was unlinked).
AddBytes(st, n) ==
    IF n > 0 /\ st.fs.stdout \in DOMAIN st.fs.files
    THEN [st EXCEPT !.fs.files[st.fs.stdout] = @ + n,
                    !.fs.order = Touch(@, st.fs.stdout)]
    ELSE st

\* The results write_to_log can have: "ok" (all n bytes written and
\* flushed) and "err" (fflush failed: -errno is returned; a short fwrite
\* likewise returns a value that is not n).  Bytes of a failed write that
\* did reach the file are bytes the redirector does not count, as those of
\* ExternalWrite.
WriteResults(budget) == IF budget > 0 THEN {"ok", "err"} ELSE {"ok"}

\* writeToCStdout / write_to_log: [st, n] with n the value returned.
writeToCStdout(st, n, res) ==
    IF res = "err" THEN [st |-> st, n |-> -1]
    ELSE [st |-> AddBytes(st, n), n |-> n]

\* redirect_stdout_stderr_to(file k): freopen(k, "w", stdout), then dup2 of
\* stdout onto stderr.  res is "ok", "open" (freopen failed: the stream is
\* closed) or "dup" (the file is open on stdout, dup2 failed).
redirect_stdout_stderr_to(st, k, res) ==
    LET opened == [st EXCEPT !.fs.files = (k :> 0) @@ @,
                             !.fs.order = Touch(@, k),
                             !.fs.stdout = k]
    IN CASE res = "open" -> [st |-> [st EXCEPT !.fs.stdout = NoFile], rc |-> -1]
         [] res = "dup"  -> [st |-> opened, rc |-> -1]
         [] OTHER        -> [st |-> opened, rc |-> 0]

\* The number of operations that fail in outcome o of redirectToNewFile.
Cost(o) ==
    (IF o.open # "ok" THEN 1 ELSE 0) + (IF o.remove THEN 0 ELSE 1)
      + (IF o.symlink THEN 0 ELSE 1)

\* The results of one redirectToNewFile: of the open, and whether the
\* environment lets os.Remove and os.Symlink succeed; at most budget of
\* them fail.
RedirectOutcomes(budget) ==
    {o \in [open : {"ok", "open", "dup"}, remove : BOOLEAN, symlink : BOOLEAN] :
        /\ Cost(o) <= budget
        /\ o.open # "ok" => o.remove /\ o.symlink}

\* os.Remove(symlink): fails with ENOENT when there is none.
osRemoveLatest(st, ok) ==
    IF st.fs.latest # NoFile /\ ok THEN [st EXCEPT !.fs.latest = NoFile] ELSE st

\* os.Symlink(target, symlink): fails with EEXIST when the pointer exists.
osSymlink(st, target, ok) ==
    IF st.fs.latest = NoFile /\ ok THEN [st EXCEPT !.fs.latest = target] ELSE st

\* A slip: the pointer is made without removing the old one first.
updateLatest_NoRemove(st, k, o) == osSymlink(st, k, o.symlink)

\* Update "latest" symlink: remove, then symlink to the new file.
updateLatest(st, k, o) == osSymlink(osRemoveLatest(st, o.remove), k, o.symlink)

redirectToNewFile(st, o) ==
    LET k  == st.l.numLogFiles + 1
        s1 == [st EXCEPT !.l.numLogFiles = k]
        s2 == IF s1.l.logFileName # NoFile THEN AddBytes(s1, DiagLen) ELSE s1
        r  == redirect_stdout_stderr_to(s2, k, o.open)
    IN IF r.rc # 0 THEN r.st
       ELSE LET s3 == [r.st EXCEPT !.l.logFileName = k, !.l.bytesWritten = 0,
                          !.fs.ptrFault = (~o.symlink)
                                          \/ (r.st.fs.latest # NoFile /\ ~o.remove)]
            IN updateLatest(s3, k, o)

\* The sets of files whose os.Remove fails in one recycleOldLogFiles.
RmFailSets(st, budget) ==
    {F \in SUBSET (DOMAIN st.fs.files) : Cardinality(F) <= budget}

\* The deletion loop over the Readdir snapshot snap (sizes and mtime order
\* as listed), from its i-th entry.
RECURSIVE recycleLoop(_, _, _, _, _)
recycleLoop(st, snap, i, dirSize, rmFail) ==
    IF i > Len(snap.order) THEN st
    ELSE LET f == snap.order[i]
         IN IF f = st.l.logFileName
            THEN recycleLoop(st, snap, i + 1, dirSize, rmFail)
            ELSE LET s1 == AddBytes(st, DiagLen)
                 IN IF f \in rmFail
                    THEN recycleLoop(s1, snap, i + 1, dirSize, rmFail)
                    ELSE LET s2 == [s1 EXCEPT
                                      !.fs.files = [x \in (DOMAIN s1.fs.files) \ {f} |-> s1.fs.files[x]],
                                      !.fs.order = Drop(@, f)]
                             ds == dirSize - snap.files[f]
                         IN IF ds <= MaxLogDirSize THEN s2
                            ELSE recycleLoop(s2, snap, i + 1, ds, rmFail)

\* logFileNameRe.MatchString(fi.Name()), which LogLines applies to the
\* directory entries and recycleOldLogFiles does not.
IsLogFile(f) == f # OtherFile

\* A slip: the comparison of sort.Slice is turned round, newest first.
recycleOldLogFiles_NewestFirst(st, rmFail) ==
    LET dirSize == DirSize(st.fs)
        n       == Len(st.fs.order)
        snap    == [st.fs EXCEPT !.order = [i \in 1..n |-> st.fs.order[n + 1 - i]]]
    IN IF dirSize > MaxLogDirSize
       THEN recycleLoop(AddBytes(st, DiagLen), snap, 1, dirSize, rmFail)
       ELSE st

recycleOldLogFiles(st, rmFail) ==
    LET dirSize == DirSize(st.fs)
    IN IF dirSize > MaxLogDirSize
       THEN recycleLoop(AddBytes(st, DiagLen), st.fs, 1, dirSize, rmFail)
       ELSE st

\* A slip: the size check runs on every write.
crossesBlock_Always(before, after) == TRUE

\* new != old, with block := *maxLogFileSizeFlag / 10.
crossesBlock(before, after) ==
    LET block == MaxLogFileSize \div 10
    IN (after \div block) # (before \div block)

StatResults(budget) == IF budget > 0 THEN {"ok", "err"} ELSE {"ok"}

Fault(res) == IF res = "err" THEN 1 ELSE 0

\* One write cycle of writeLog on len(data) = n, where at most budget disk
\* operations fail: the set of [st, cycle, faults] it can end in.  cycle
\* records what the cycle did, faults how many operations failed.
WriteCycle(st, n, budget) ==
    UNION {
      LET w  == writeToCStdout(st, n, res)
          c0 == [NoCycle EXCEPT !.before = st.l.bytesWritten, !.n = n, !.wrote = w.n]
          b1 == budget - Fault(res)
      IN IF w.n # n THEN {[st |-> w.st, cycle |-> c0, faults |-> Fault(res)]}
         ELSE LET s1 == [w.st EXCEPT !.l.bytesWritten = @ + w.n]
              IN IF ~crossesBlock(st.l.bytesWritten, s1.l.bytesWritten)
                 THEN {[st |-> s1, cycle |-> c0, faults |-> 0]}
                 ELSE UNION {
                   LET c1 == [c0 EXCEPT !.statted = TRUE]
                   IN IF sr = "err" THEN {[st |-> s1, cycle |-> c1, faults |-> 1]}
                      ELSE LET size == s1.fs.files[s1.l.logFileName]
                               c2 == [c1 EXCEPT !.size = size]
                           IN IF size < MaxLogFileSize
                              THEN {[st |-> s1, cycle |-> c2, faults |-> 0]}
                              ELSE UNION {
                                LET s2 == redirectToNewFile(s1, o)
                                    c3 == [c2 EXCEPT !.rotated = TRUE,
                                                     !.opened = (s2.l.logFileName # s1.l.logFileName),
                                                     !.total = DirSize(s2.fs),
                                                     !.snap = [files |-> s2.fs.files,
                                                               order |-> s2.fs.order,
                                                               latest |-> s2.fs.latest],
                                                     !.active = s2.l.logFileName]
                                IN {[st |-> recycleOldLogFiles(s2, F),
                                     cycle |-> [c3 EXCEPT !.rmFail = F],
                                     faults |-> Cost(o) + Cardinality(F)]
                                      : F \in RmFailSets(s2, b1 - Cost(o))}
                                : o \in RedirectOutcomes(b1) }
                   : sr \in StatResults(b1) }
      : res \in WriteResults(budget) }

(***************************************************************************)
(* logging.go: the callers.                                                *)
(***************************************************************************)
\* A slip: a full buffer makes room by discarding its oldest entry.
logText_Overwrite(text, level) ==
    /\ nSubmitted' = nSubmitted + 1
    /\ IF logChClosed
       THEN /\ proc' = "panic: send on closed channel"
            /\ UNCHANGED <<logCh, droppedLogLines, nDropped>>
       ELSE /\ proc' = proc
            /\ logCh' = IF Len(logCh) < LogChCap
                        THEN Append(logCh, [text |-> text, level |-> level])
                        ELSE Append(Tail(logCh), [text |-> text, level |-> level])
            /\ droppedLogLines' = IF Len(logCh) < LogChCap THEN droppedLogLines
                                  ELSE droppedLogLines + 1
            /\ nDropped' = IF Len(logCh) < LogChCap THEN nDropped ELSE nDropped + 1

\* select { case logCh <- logEntry{...}: default: atomic.AddUint32(...) }.
\* A send on a closed channel panics, in a select too.  droppedLogLines is
\* a uint32; MaxSubmits keeps it far from 2^32, where it would wrap.
logText(text, level) ==
    /\ nSubmitted' = nSubmitted + 1
    /\ IF logChClosed
       THEN /\ proc' = "panic: send on closed channel"
            /\ UNCHANGED <<logCh, droppedLogLines, nDropped>>
       ELSE /\ proc' = proc
            /\ IF Len(logCh) < LogChCap
               THEN /\ logCh' = Append(logCh, [text |-> text, level |-> level])
                    /\ UNCHANGED <<droppedLogLines, nDropped>>
               ELSE /\ droppedLogLines' = droppedLogLines + 1
                    /\ nDropped' = nDropped + 1
                    /\ UNCHANGED logCh

\* Printf (likewise Vlog, Vlogf within the verbosity limit): logText at level 1.
Printf(t, text) ==
    /\ proc = "running" /\ pcT[t] = "idle" /\ nSubmitted < MaxSubmits
    /\ logText(text, 1)
    /\ UNCHANGED <<nlogVars, lineVars, logChClosed, consVars, redirVars, writerVars, diskVars, threadVars,
                   out, disk, handled, closeReturned>>

\* Fatal / Fatalf: logText at level -1, then Close(), then os.Exit(1).
Fatal(t, text) ==
    /\ proc = "running" /\ pcT[t] = "idle" /\ nSubmitted < MaxSubmits
    /\ logText(text, -1)
    /\ pcT' = [pcT EXCEPT ![t] = "Close"]
    /\ callT' = [callT EXCEPT ![t] = "Fatal"]
    /\ UNCHANGED <<nlogVars, lineVars, logChClosed, consVars, redirVars, writerVars, diskVars,
                   out, disk, handled, closeReturned>>

\* The return of Close or CloseRedirector to its caller: Fatal goes on to
\* os.Exit(1).
Return(t) ==
    /\ pcT' = [pcT EXCEPT ![t] = "idle"]
    /\ callT' = [callT EXCEPT ![t] = ""]
    /\ proc' = IF callT[t] = "Fatal" THEN "exited" ELSE proc
    /\ closeReturned' = (closeReturned \/ callT[t] \in {"Fatal", "Close"})

\* Close(), first statement: close(logCh).  Closing a closed channel panics.
Close(t) ==
    /\ proc = "running" /\ pcT[t] \in {"idle", "Close"}
    /\ IF logChClosed
       THEN /\ proc' = "panic: close of closed channel"
            /\ UNCHANGED <<logChClosed, pcT, callT>>
       ELSE /\ logChClosed' = TRUE
            /\ pcT' = [pcT EXCEPT ![t] = "wg.Wait"]
            /\ callT' = [callT EXCEPT ![t] = IF @ = "Fatal" THEN @ ELSE "Close"]
            /\ proc' = proc
    /\ UNCHANGED <<nlogVars, lineVars, logCh, droppedLogLines, consVars, redirVars, writerVars, diskVars,
                   histVars>>

\* Close(): wg.Wait() returns once processLogs has run wg.Done().
CloseWait(t) ==
    /\ proc = "running" /\ pcT[t] = "wg.Wait" /\ pcProcessLogs = "done"
    /\ pcT' = [pcT EXCEPT ![t] = "CloseRedirector"]
    /\ UNCHANGED <<nlogVars, lineVars, chanVars, consVars, redirVars, writerVars, diskVars, callT, proc,
                   histVars>>

\* CloseRedirector(), called by Close or directly: if lr != nil,
\* log.SetOutput(os.Stderr) and lr.Close(), whose first statement is
\* close(l.logCh).
CloseRedirector(t) ==
    /\ proc = "running" /\ pcT[t] \in {"idle", "CloseRedirector"}
    /\ IF lr = "nil"
       THEN /\ Return(t)
            /\ UNCHANGED <<logOutput, lrLogChClosed>>
       ELSE /\ logOutput' = "stderr"
            /\ IF lrLogChClosed
               THEN /\ proc' = "panic: close of closed channel"
                    /\ UNCHANGED <<lrLogChClosed, pcT, callT>>
               ELSE /\ lrLogChClosed' = TRUE
                    /\ pcT' = [pcT EXCEPT ![t] = "l.wg.Wait"]
                    /\ callT' = [callT EXCEPT ![t] = IF @ = "" THEN "CloseRedirector" ELSE @]
                    /\ proc' = proc
            /\ UNCHANGED closeReturned
    /\ UNCHANGED <<nlogVars, lineVars, chanVars, consVars, lr, lrLogCh, writerVars, diskVars,
                   out, disk, handled, nSubmitted, nDropped>>

\* LogRedirector.Close(): l.wg.Wait() returns once writeLog has ended; then
\* CloseRedirector sets lr = nil and returns.
CloseRedirectorWait(t) ==
    /\ proc = "running" /\ pcT[t] = "l.wg.Wait" /\ pcWriteLog = "done"
    /\ lr' = "nil"
    /\ Return(t)
    /\ UNCHANGED <<nlogVars, lineVars, chanVars, consVars, lrLogCh, lrLogChClosed, logOutput, writerVars,
                   diskVars, out, disk, handled, nSubmitted, nDropped>>

(***************************************************************************)
(* redirect.go: LogRedirector.Write, reached through the standard logger.  *)
(***************************************************************************)
\* select { case l.logCh <- logData: return len(logData), nil }: a select
\* of one case and no default waits until the send can proceed.
Write(p) ==
    IF lrLogChClosed
    THEN /\ proc' = "panic: send on closed channel"
         /\ UNCHANGED lrLogCh
    ELSE /\ Len(lrLogCh) < LogChanSize
         /\ lrLogCh' = Append(lrLogCh, p)
         /\ proc' = proc

\* log.Printf / log.Print: one line to the logger's output.
logPrint(line) ==
    /\ out' = Append(out, [to |-> logOutput] @@ line)
    /\ IF logOutput = "lr" THEN Write(line) ELSE UNCHANGED <<lrLogCh, proc>>

(***************************************************************************)
(* logging.go: goroutine processLogs.                                      *)
(***************************************************************************)
Line(kind, text, level, n) == [kind |-> kind, text |-> text, level |-> level, n |-> n]

\* for le := range logCh: receive, or end when logCh is closed and empty
\* (the deferred wg.Done()).
processLogsRecv ==
    /\ proc = "running" /\ pcProcessLogs = "recv"
    /\ IF logCh # <<>>
       THEN /\ le' = Head(logCh)
            /\ logCh' = Tail(logCh)
            /\ pcProcessLogs' = "swap"
       ELSE /\ logChClosed
            /\ pcProcessLogs' = "done"
            /\ UNCHANGED <<le, logCh>>
    /\ UNCHANGED <<nlogVars, lineVars, logChClosed, droppedLogLines, dropped, lastLogLine,
                   lastLogLineRepeatCount, redirVars, writerVars, diskVars, threadVars,
                   proc, histVars>>

\* A slip: the counter is read and not reset.
processLogsSwap_Load ==
    /\ proc = "running" /\ pcProcessLogs = "swap"
    /\ dropped' = droppedLogLines
    /\ pcProcessLogs' = IF droppedLogLines > 0 THEN "warn" ELSE "dedup"
    /\ UNCHANGED <<nlogVars, lineVars, chanVars, le, lastLogLine, lastLogLineRepeatCount,
                   redirVars, writerVars, diskVars, threadVars, proc, histVars>>

\* dropped := atomic.SwapUint32(&droppedLogLines, 0)
processLogsSwap ==
    /\ proc = "running" /\ pcProcessLogs = "swap"
    /\ dropped' = droppedLogLines
    /\ droppedLogLines' = 0
    /\ pcProcessLogs' = IF droppedLogLines > 0 THEN "warn" ELSE "dedup"
    /\ UNCHANGED <<nlogVars, lineVars, logCh, logChClosed, le, lastLogLine, lastLogLineRepeatCount,
                   redirVars, writerVars, diskVars, threadVars, proc, histVars>>

\* log.Printf("%d log lines were dropped.", dropped)
processLogsWarn ==
    /\ proc = "running" /\ pcProcessLogs = "warn"
    /\ logPrint(Line("dropped", "", 0, dropped))
    /\ dropped' = 0
    /\ pcProcessLogs' = "dedup"
    /\ UNCHANGED <<nlogVars, lineVars, chanVars, le, lastLogLine, lastLogLineRepeatCount,
                   lr, lrLogChClosed, logOutput, writerVars, diskVars, threadVars,
                   disk, handled, nSubmitted, nDropped, closeReturned>>

\* if lastLogLine == le.text { lastLogLineRepeatCount++ } else { ... }
processLogsDedup ==
    /\ proc = "running" /\ pcProcessLogs = "dedup"
    /\ handled' = Append(handled, le.text)
    /\ IF lastLogLine = le.text
       THEN /\ lastLogLineRepeatCount' = lastLogLineRepeatCount + 1
            /\ pcProcessLogs' = "recv"
            /\ le' = NoEntry
            /\ UNCHANGED lastLogLine
       ELSE IF lastLogLineRepeatCount > 0
            THEN /\ pcProcessLogs' = "notice"
                 /\ UNCHANGED <<le, lastLogLine, lastLogLineRepeatCount>>
            ELSE /\ lastLogLine' = le.text
                 /\ pcProcessLogs' = "line"
                 /\ UNCHANGED <<le, lastLogLineRepeatCount>>
    /\ UNCHANGED <<nlogVars, lineVars, chanVars, dropped, redirVars, writerVars, diskVars, threadVars, proc,
                   out, disk, nSubmitted, nDropped, closeReturned>>

\* log.Printf("Last line repeated %d times.", lastLogLineRepeatCount);
\* lastLogLineRepeatCount = 0; lastLogLine = le.text
processLogsNotice ==
    /\ proc = "running" /\ pcProcessLogs = "notice"
    /\ logPrint(Line("repeated", "", 0, lastLogLineRepeatCount))
    /\ lastLogLineRepeatCount' = 0
    /\ lastLogLine' = le.text
    /\ pcProcessLogs' = "line"
    /\ UNCHANGED <<nlogVars, lineVars, chanVars, le, dropped, lr, lrLogChClosed, logOutput, writerVars,
                   diskVars, threadVars, disk, handled, nSubmitted, nDropped,
                   closeReturned>>

\* log.Print(fileLinePrefix(...), vlogPrefix(le.level), le.text, vlogSuffix(le.level))
processLogsLine ==
    /\ proc = "running" /\ pcProcessLogs = "line"
    /\ logPrint(Line("line", le.text, le.level, 0))
    /\ pcProcessLogs' = "recv"
    /\ le' = NoEntry
    /\ UNCHANGED <<nlogVars, lineVars, chanVars, dropped, lastLogLine, lastLogLineRepeatCount,
                   lr, lrLogChClosed, logOutput, writerVars, diskVars, threadVars,
                   disk, handled, nSubmitted, nDropped, closeReturned>>

processLogs ==
    \/ processLogsRecv
    \/ processLogsSwap
    \/ processLogsWarn
    \/ processLogsDedup
    \/ processLogsNotice
    \/ processLogsLine

(***************************************************************************)
(* redirect.go: goroutine writeLog.                                        *)
(***************************************************************************)
\* A slip: the chunk received replaces the chunks already held.
writeLogRecv_Replace ==
    /\ proc = "running" /\ pcWriteLog = "recv"
    /\ IF lrLogCh # <<>>
       THEN /\ lrLogCh' = Tail(lrLogCh)
            /\ IF l.logFileName = NoFile
               THEN UNCHANGED <<pcWriteLog, data>>
               ELSE /\ data' = <<Head(lrLogCh)>>
                    /\ pcWriteLog' = "purge"
       ELSE /\ lrLogChClosed
            /\ pcWriteLog' = "done"
            /\ UNCHANGED <<lrLogCh, data>>
    /\ UNCHANGED <<nlogVars, lineVars, chanVars, consVars, lr, lrLogChClosed, logOutput, diskVars,
                   threadVars, proc, histVars>>

\* for logData := range l.logCh: receive, skip the chunk when no file is
\* open, else append it to data; end when l.logCh is closed and empty.
writeLogRecv ==
    /\ proc = "running" /\ pcWriteLog = "recv"
    /\ IF lrLogCh # <<>>
       THEN /\ lrLogCh' = Tail(lrLogCh)
            /\ IF l.logFileName = NoFile
               THEN UNCHANGED <<pcWriteLog, data>>
               ELSE /\ data' = Append(data, Head(lrLogCh))
                    /\ pcWriteLog' = "purge"
       ELSE /\ lrLogChClosed
            /\ pcWriteLog' = "done"
            /\ UNCHANGED <<lrLogCh, data>>
    /\ UNCHANGED <<nlogVars, lineVars, chanVars, consVars, lr, lrLogChClosed, logOutput, diskVars,
                   threadVars, proc, histVars>>

\* if len(l.logCh) > 0 { continue }; else the write cycle on data, and
\* data = nil.
writeLogWrite ==
    /\ proc = "running" /\ pcWriteLog = "purge"
    /\ IF Len(lrLogCh) > 0
       THEN /\ pcWriteLog' = "recv"
            /\ UNCHANGED <<data, l, fs, cycle, ioFaults, disk>>
       ELSE \E r \in WriteCycle([l |-> l, fs |-> fs], Len(data) * LineLen, ioFaults) :
               /\ l' = r.st.l
               /\ fs' = r.st.fs
               /\ cycle' = r.cycle
               /\ ioFaults' = ioFaults - r.faults
               /\ disk' = IF r.cycle.wrote = r.cycle.n THEN disk \o data ELSE disk
               /\ data' = <<>>
               /\ pcWriteLog' = "recv"
    /\ UNCHANGED <<nlogVars, lineVars, chanVars, consVars, redirVars, threadVars, proc,
                   out, handled, nSubmitted, nDropped, closeReturned>>

writeLog == writeLogRecv \/ writeLogWrite

(***************************************************************************)
(* Spec: the pipeline after init() and one RedirectTo(logDir) that         *)
(* succeeded in an empty directory.                                        *)
(***************************************************************************)
Init ==
    /\ logCh = <<>> /\ logChClosed = FALSE /\ droppedLogLines = 0
    /\ pcProcessLogs = "recv" /\ le = NoEntry /\ dropped = 0
    /\ lastLogLine = "" /\ lastLogLineRepeatCount = 0
    /\ logOutput = "lr" /\ lr = "set" /\ lrLogCh = <<>> /\ lrLogChClosed = FALSE
    /\ pcWriteLog = "recv" /\ data = <<>>
    /\ l = [logFileName |-> 1, bytesWritten |-> 0, numLogFiles |-> 1]
    /\ fs = [files |-> (1 :> 0), order |-> <<1>>, latest |-> 1, stdout |-> 1,
             ptrFault |-> FALSE]
    /\ ioFaults = 0
    /\ cycle = NoCycle
    /\ pcT = [t \in Threads |-> "idle"] /\ callT = [t \in Threads |-> ""]
    /\ proc = "running"
    /\ out = <<>> /\ disk = <<>> /\ handled = <<>>
    /\ nSubmitted = 0 /\ nDropped = 0 /\ closeReturned = FALSE
    /\ NoLines /\ NoNlog

Next ==
    \/ \E t \in Threads, text \in Texts : Printf(t, text)
    \/ \E t \in Threads, text \in Texts : Fatal(t, text)
    \/ \E t \in Threads : Close(t)
    \/ \E t \in Threads : CloseWait(t)
    \/ \E t \in Threads : CloseRedirector(t)
    \/ \E t \in Threads : CloseRedirectorWait(t)
    \/ processLogs
    \/ writeLog

Spec == Init /\ [][Next]_vars

(***************************************************************************)
(* SpecRot: the disk side.  RedirectTo constructs the redirector in a log  *)
(* directory that may hold a file and a pointer of an earlier run; then    *)
(* writeLog runs write cycles on data of any length, C code writes to      *)
(* stdout beside it, and disk operations may fail.                         *)
(***************************************************************************)
NoFiles == [x \in {} |-> 0]

InitDirs ==
    {[files |-> NoFiles, order |-> <<>>, latest |-> NoFile, stdout |-> NoFile,
      ptrFault |-> FALSE]}
    \cup {[files |-> (OldFile :> MaxLogFileSize \div 2), order |-> <<OldFile>>,
           latest |-> NoFile, stdout |-> NoFile, ptrFault |-> FALSE],
          [files |-> (OldFile :> MaxLogFileSize), order |-> <<OldFile>>,
           latest |-> OldFile, stdout |-> NoFile, ptrFault |-> FALSE],
          [files |-> (OtherFile :> MaxLogFileSize), order |-> <<OtherFile>>,
           latest |-> NoFile, stdout |-> NoFile, ptrFault |-> FALSE]}

InitRot ==
    /\ logCh = <<>> /\ logChClosed = FALSE /\ droppedLogLines = 0
    /\ pcProcessLogs = "recv" /\ le = NoEntry /\ dropped = 0
    /\ lastLogLine = "" /\ lastLogLineRepeatCount = 0
    /\ logOutput = "stderr" /\ lr = "nil" /\ lrLogCh = <<>> /\ lrLogChClosed = FALSE
    /\ pcWriteLog = "none" /\ data = <<>>
    /\ l = [logFileName |-> NoFile, bytesWritten |-> 0, numLogFiles |-> 0]
    /\ fs \in InitDirs
    /\ ioFaults \in 0..MaxFaults
    /\ cycle = NoCycle
    /\ pcT = [t \in Threads |-> "idle"] /\ callT = [t \in Threads |-> ""]
    /\ proc = "running"
    /\ out = <<>> /\ disk = <<>> /\ handled = <<>>
    /\ nSubmitted = 0 /\ nDropped = 0 /\ closeReturned = FALSE
    /\ NoLines /\ NoNlog

\* RedirectTo(logDir) with lr == nil: NewLogRedirector (MkdirAll, the first
\* redirectToNewFile, go lr.writeLog()), then log.SetOutput(lr).
RedirectTo ==
    /\ proc = "running" /\ lr = "nil" /\ pcWriteLog = "none"
    /\ \E o \in RedirectOutcomes(ioFaults) :
          LET s == redirectToNewFile([l |-> l, fs |-> fs], o)
          IN l' = s.l /\ fs' = s.fs /\ ioFaults' = ioFaults - Cost(o)
    /\ lr' = "set" /\ logOutput' = "lr" /\ pcWriteLog' = "recv"
    /\ UNCHANGED <<nlogVars, lineVars, chanVars, consVars, lrLogCh, lrLogChClosed, data, cycle,
                   threadVars, proc, histVars>>

\* writeLog takes chunks of n bytes in all off an l.logCh it then finds
\* empty, and runs the write cycle on them.
writeLogCycle(n) ==
    /\ proc = "running" /\ pcWriteLog = "recv" /\ l.logFileName # NoFile
    /\ \E r \in WriteCycle([l |-> l, fs |-> fs], n, ioFaults) :
          /\ r.st.l.numLogFiles <= MaxLogFiles
          /\ r.st.l.bytesWritten <= MaxBytes
          /\ \A f \in DOMAIN r.st.fs.files : r.st.fs.files[f] <= MaxBytes
          /\ l' = r.st.l /\ fs' = r.st.fs /\ cycle' = r.cycle
          /\ ioFaults' = ioFaults - r.faults
    /\ UNCHANGED <<nlogVars, lineVars, chanVars, consVars, redirVars, writerVars, threadVars, proc,
                   histVars>>

\* C code of the process writes k bytes to stdout ("writing at the same
\* time by Go and C").
ExternalWrite(k) ==
    /\ proc = "running" /\ lr = "set"
    /\ LET s == AddBytes([l |-> l, fs |-> fs], k)
       IN /\ \A f \in DOMAIN s.fs.files : s.fs.files[f] <= MaxBytes
          /\ fs' = s.fs
    /\ UNCHANGED <<nlogVars, lineVars, chanVars, consVars, redirVars, writerVars, l, cycle, ioFaults,
                   threadVars, proc, histVars>>

NextRot ==
    \/ RedirectTo
    \/ \E n \in 1..MaxChunk : writeLogCycle(n)
    \/ \E k \in {MaxLogFileSize \div 2} : ExternalWrite(k)

SpecRot == InitRot /\ [][NextRot]_vars

(***************************************************************************)
(* redirect.go: the names of log files and the lines in them.  A string is *)
(* a sequence of one-character strings; "ESC" stands for the byte \033.    *)
(***************************************************************************)
Digits == <<"0", "1", "2", "3", "4", "5", "6", "7", "8", "9">>

IsDigit(c) == \E d \in 1..10 : Digits[d] = c

DigitVal(c) == (CHOOSE d \in 1..10 : Digits[d] = c) - 1

RECURSIVE Atoi(_)
Atoi(s) ==
    IF s = <<>> THEN 0
    ELSE Atoi(SubSeq(s, 1, Len(s) - 1)) * 10 + DigitVal(s[Len(s)])

\* fmt's %d of n >= 0.
RECURSIVE Itoa(_)
Itoa(n) ==
    IF n < 10 THEN <<Digits[n + 1]>>
    ELSE Itoa(n \div 10) \o <<Digits[(n % 10) + 1]>>

\* A field of a time layout: n in w digits.
Pad(n, w) == LET d == Itoa(n) IN [i \in 1..(w - Len(d)) |-> "0"] \o d

\* time.Local as the tests set it, America/Los_Angeles, in the daylight
\* saving part of the year: seconds east of UTC.
LocalOffset == -25200

\* time.Time{}.Unix(), what the ignored error of time.ParseInLocation leaves
\* in tm.  It is -62135596800, which is beyond the integers of the model
\* checker; the model holds the least integer it has in its place.
ZeroTimeUnix == -2147483647

IsLeap(y) == (y % 4 = 0 /\ y % 100 # 0) \/ y % 400 = 0

DaysIn(y, m) ==
    IF m = 2 THEN (IF IsLeap(y) THEN 29 ELSE 28)
    ELSE IF m \in {4, 6, 9, 11} THEN 30 ELSE 31

\* Days from 1970-01-01 to the civil date y-m-d.
DaysFromCivil(y, m, d) ==
    LET yy  == IF m <= 2 THEN y - 1 ELSE y
        era == yy \div 400
        yoe == yy - era * 400
        mp  == IF m > 2 THEN m - 3 ELSE m + 9
        doy == (153 * mp + 2) \div 5 + d - 1
        doe == yoe * 365 + yoe \div 4 - yoe \div 100 + doy
    IN era * 146097 + doe - 719468

\* The civil date of day z since 1970-01-01.
CivilFromDays(z) ==
    LET zz  == z + 719468
        era == zz \div 146097
        doe == zz - era * 146097
        yoe == (doe - doe \div 1460 + doe \div 36524 - doe \div 146096) \div 365
        doy == doe - (365 * yoe + yoe \div 4 - yoe \div 100)
        mp  == (5 * doy + 2) \div 153
        d   == doy - (153 * mp + 2) \div 5 + 1
        m   == IF mp < 10 THEN mp + 3 ELSE mp - 9
    IN [y |-> yoe + era * 400 + (IF m <= 2 THEN 1 ELSE 0), m |-> m, d |-> d]

\* time.ParseInLocation(layout, value, time.Local) followed by tm.Unix(), the
\* error ignored, on the fields the layout cuts value into.
ParseInLocation(y, m, d, hh, mm, ss) ==
    IF /\ m \in 1..12 /\ d \in 1..DaysIn(y, m)
       /\ hh \in 0..23 /\ mm \in 0..59 /\ ss \in 0..59
    THEN DaysFromCivil(y, m, d) * 86400 + hh * 3600 + mm * 60 + ss - LocalOffset
    ELSE ZeroTimeUnix

\* The fields of Unix time t in time.Local.
LocalTime(t) ==
    LET loc == t + LocalOffset
        c   == CivilFromDays(loc \div 86400)
        r   == loc % 86400
    IN [y |-> c.y, m |-> c.m, d |-> c.d,
        hh |-> r \div 3600, mm |-> (r % 3600) \div 60, ss |-> r % 60]

\* time.Unix(t, 0).Format(LOG_FILE_TIME_FORMAT), "20060102-150405".
FormatFileTime(t) ==
    LET f == LocalTime(t)
    IN Pad(f.y, 4) \o Pad(f.m, 2) \o Pad(f.d, 2) \o <<"-">>
         \o Pad(f.hh, 2) \o Pad(f.mm, 2) \o Pad(f.ss, 2)

\* The prefix the standard logger puts before a line, LOG_LINE_TIME_FORMAT,
\* "2006/01/02 15:04:05".
FormatLineTime(t) ==
    LET f == LocalTime(t)
    IN Pad(f.y, 4) \o <<"/">> \o Pad(f.m, 2) \o <<"/">> \o Pad(f.d, 2) \o <<" ">>
         \o Pad(f.hh, 2) \o <<":">> \o Pad(f.mm, 2) \o <<":">> \o Pad(f.ss, 2)

\* s begins with pat, where "d" in pat stands for [0-9].
HasPrefix(s, pat) ==
    /\ Len(s) >= Len(pat)
    /\ \A i \in 1..Len(pat) : IF pat[i] = "d" THEN IsDigit(s[i]) ELSE s[i] = pat[i]

FileStamp ==
    <<"d", "d", "d", "d", "d", "d", "d", "d", "-", "d", "d", "d", "d", "d", "d">>

\* logFileNameRe, "^[0-9]{8}-[0-9]{6}_([0-9]{8}-[0-9]{6})_[0-9]+[.]log$".
logFileNameRe(name) ==
    LET pat  == FileStamp \o <<"_">> \o FileStamp \o <<"_">>
        rest == SubSeq(name, Len(pat) + 1, Len(name))
        k    == Len(rest) - 4
    IN /\ HasPrefix(name, pat)
       /\ k >= 1
       /\ \A i \in 1..k : IsDigit(rest[i])
       /\ SubSeq(rest, k + 1, Len(rest)) = <<".", "l", "o", "g">>

\* logLineStartRe, "^([0-9]{4}/[0-9]{2}/[0-9]{2} [0-9]{2}:[0-9]{2}:[0-9]{2})".
logLineStartRe(line) ==
    HasPrefix(line, <<"d", "d", "d", "d", "/", "d", "d", "/", "d", "d", " ",
                      "d", "d", ":", "d", "d", ":", "d", "d">>)

\* A slip: the submatch taken is the first time of the name, the start of
\* the process.
LogFileStartTs_ProcessStart(fileName) ==
    ParseInLocation(Atoi(SubSeq(fileName, 1, 4)), Atoi(SubSeq(fileName, 5, 6)),
                    Atoi(SubSeq(fileName, 7, 8)), Atoi(SubSeq(fileName, 10, 11)),
                    Atoi(SubSeq(fileName, 12, 13)), Atoi(SubSeq(fileName, 14, 15)))

\* LogFileStartTs: submatch 1 of logFileNameRe, parsed with
\* LOG_FILE_TIME_FORMAT in time.Local.  (On a name that does not match,
\* FindStringSubmatch returns nil and the index panics; LogLines calls it on
\* matching names only.)
LogFileStartTs(fileName) ==
    ParseInLocation(Atoi(SubSeq(fileName, 17, 20)), Atoi(SubSeq(fileName, 21, 22)),
                    Atoi(SubSeq(fileName, 23, 24)), Atoi(SubSeq(fileName, 26, 27)),
                    Atoi(SubSeq(fileName, 28, 29)), Atoi(SubSeq(fileName, 30, 31)))

\* LogLineTs: 0 without a match of logLineStartRe, else the match parsed
\* with LOG_LINE_TIME_FORMAT in time.Local.
LogLineTs(logLine) ==
    IF ~logLineStartRe(logLine) THEN 0
    ELSE ParseInLocation(Atoi(SubSeq(logLine, 1, 4)), Atoi(SubSeq(logLine, 6, 7)),
                         Atoi(SubSeq(logLine, 9, 10)), Atoi(SubSeq(logLine, 12, 13)),
                         Atoi(SubSeq(logLine, 15, 16)), Atoi(SubSeq(logLine, 18, 19)))

(***************************************************************************)
(* redirect.go: LogLines.  A directory entry is [name, regular, lines]     *)
(* (and, for the record, when it was created and its sequence number); a   *)
(* returned line is [text] (and, for the record, the file and the position *)
(* it was read from).                                                      *)
(***************************************************************************)
IsSpace(c) == c \in {" ", "\t", "\r"}

\* strings.TrimSpace
RECURSIVE TrimSpace(_)
TrimSpace(s) ==
    IF s = <<>> THEN s
    ELSE IF IsSpace(s[1]) THEN TrimSpace(Tail(s))
    ELSE IF IsSpace(s[Len(s)]) THEN TrimSpace(SubSeq(s, 1, Len(s) - 1))
    ELSE s

\* The number of characters of [;0-9] in s from position j on.
RECURSIVE ClassRun(_, _)
ClassRun(s, j) ==
    IF j <= Len(s) /\ (s[j] = ";" \/ IsDigit(s[j])) THEN 1 + ClassRun(s, j + 1) ELSE 0

\* The length of the match of colorRe, "\033[[][;0-9]+m", at position i of
\* s; 0 when there is none.
colorRe(s, i) ==
    IF i + 1 <= Len(s) /\ s[i] = "ESC" /\ s[i + 1] = "["
    THEN LET r == ClassRun(s, i + 2)
         IN IF r >= 1 /\ i + 2 + r <= Len(s) /\ s[i + 2 + r] = "m" THEN r + 3 ELSE 0
    ELSE 0

\* colorRe.ReplaceAllString(s, "") from position i on.
RECURSIVE ReplaceAllString(_, _)
ReplaceAllString(s, i) ==
    IF i > Len(s) THEN <<>>
    ELSE IF colorRe(s, i) > 0 THEN ReplaceAllString(s, i + colorRe(s, i))
    ELSE <<s[i]>> \o ReplaceAllString(s, i + 1)

\* colorRe.ReplaceAllString(strings.TrimSpace(line), "")
Clean(line) == ReplaceAllString(TrimSpace(line), 1)

\* The byte of a character of a log file's name.
ByteOf(c) ==
    IF IsDigit(c) THEN 48 + DigitVal(c)
    ELSE CASE c = "-" -> 45 [] c = "." -> 46 [] c = "_" -> 95
           [] c = "g" -> 103 [] c = "l" -> 108 [] c = "o" -> 111

\* a < b of Go strings.
RECURSIVE StrLess(_, _)
StrLess(a, b) ==
    IF b = <<>> THEN FALSE
    ELSE IF a = <<>> THEN TRUE
    ELSE IF a[1] = b[1] THEN StrLess(Tail(a), Tail(b))
    ELSE ByteOf(a[1]) < ByteOf(b[1])

\* sort.Slice(fis, fis[i].Name() > fis[j].Name()): latest files first.
RECURSIVE SortByNameDesc(_)
SortByNameDesc(fis) ==
    IF fis = <<>> THEN <<>>
    ELSE LET top == CHOOSE i \in 1..Len(fis) :
                       \A j \in 1..Len(fis) : j # i => StrLess(fis[j].name, fis[i].name)
         IN <<fis[top]>>
              \o SortByNameDesc(SelectSeq(fis, LAMBDA f : f.name # fis[top].name))

\* sort.Search(n, f) with f(i) the test of the file's start time against
\* startTs (strict for the lines before startTs): the binary search between
\* i and j, indices from 0.
RECURSIVE Search(_, _, _, _, _)
Search(fis, startTs, strict, i, j) ==
    IF i >= j THEN i
    ELSE LET h  == (i + j) \div 2
             ts == LogFileStartTs(fis[h + 1].name)
         IN IF (IF strict THEN ts < startTs ELSE ts <= startTs)
            THEN Search(fis, startTs, strict, i, h)
            ELSE Search(fis, startTs, strict, h + 1, j)

\* A slip: the assignment is left out, and every line is tested.
findFirstLineAfterMatch_Kept == TRUE

\* findFirstLine = false, once the first line at or after startTs is found.
findFirstLineAfterMatch == FALSE

\* The scanner loop of logLinesAfter from line i of fi on.
RECURSIVE scanAfter(_, _, _, _, _, _)
scanAfter(fi, i, findFirstLine, startTs, numBytes, lines) ==
    IF i > Len(fi.lines) THEN [lines |-> lines, numBytes |-> numBytes]
    ELSE IF findFirstLine /\ LogLineTs(fi.lines[i]) < startTs
    THEN scanAfter(fi, i + 1, TRUE, startTs, numBytes, lines)
    ELSE LET line == Clean(fi.lines[i])
             got  == Append(lines, [text |-> line, name |-> fi.name, i |-> i])
             nb   == numBytes - Len(line)
         IN IF nb <= 0 THEN [lines |-> got, numBytes |-> nb]
            ELSE scanAfter(fi, i + 1, findFirstLine /\ findFirstLineAfterMatch,
                           startTs, nb, got)

logLinesAfter(fi, startTs, numBytes) ==
    scanAfter(fi, 1, LogFileStartTs(fi.name) < startTs, startTs, numBytes, <<>>)

\* The scanner loop of logLinesBefore: the lines of fi, from line i on, up
\* to the first one at or after startTs > 0.
RECURSIVE scanBefore(_, _, _)
scanBefore(fi, i, startTs) ==
    IF i > Len(fi.lines) THEN <<>>
    ELSE IF startTs > 0 /\ LogLineTs(fi.lines[i]) >= startTs THEN <<>>
    ELSE <<[text |-> Clean(fi.lines[i]), name |-> fi.name, i |-> i]>>
           \o scanBefore(fi, i + 1, startTs)

\* The second loop of logLinesBefore, from the end of lines.
RECURSIVE tailWithin(_, _, _)
tailWithin(lines, i, numBytes) ==
    IF i < 1 THEN [lines |-> lines, numBytes |-> numBytes]
    ELSE LET nb == numBytes - Len(lines[i].text)
         IN IF nb <= 0 THEN [lines |-> SubSeq(lines, i, Len(lines)), numBytes |-> nb]
            ELSE tailWithin(lines, i - 1, nb)

logLinesBefore(fi, startTs, numBytes) ==
    LET lines == scanBefore(fi, 1, startTs)
    IN tailWithin(lines, Len(lines), numBytes)

\* startTs == 0: for _, fi := range fis, from fis[i] (indices from 0).
RECURSIVE recentLoop(_, _, _, _)
recentLoop(fis, i, numBytes, acc) ==
    IF i >= Len(fis) THEN acc
    ELSE LET r   == logLinesBefore(fis[i + 1], 0, numBytes)
             got == [lines |-> r.lines \o acc.lines, read |-> Append(acc.read, fis[i + 1].name)]
         IN IF r.numBytes <= 0 THEN got ELSE recentLoop(fis, i + 1, r.numBytes, got)

\* startTs > 0: for i := start; i >= 0; i--.
RECURSIVE afterLoop(_, _, _, _, _)
afterLoop(fis, i, startTs, numBytes, acc) ==
    IF i < 0 THEN acc
    ELSE LET r   == logLinesAfter(fis[i + 1], startTs, numBytes)
             got == [lines |-> acc.lines \o r.lines, read |-> Append(acc.read, fis[i + 1].name)]
         IN IF r.numBytes <= 0 THEN got ELSE afterLoop(fis, i - 1, startTs, r.numBytes, got)

\* startTs < 0: for i := start; i < len(fis); i++, startTs = 0 after the
\* first file.
RECURSIVE beforeLoop(_, _, _, _, _)
beforeLoop(fis, i, startTs, numBytes, acc) ==
    IF i >= Len(fis) THEN acc
    ELSE LET r   == logLinesBefore(fis[i + 1], startTs, numBytes)
             got == [lines |-> r.lines \o acc.lines, read |-> Append(acc.read, fis[i + 1].name)]
         IN IF r.numBytes <= 0 THEN got ELSE beforeLoop(fis, i + 1, 0, r.numBytes, got)

\* LogRedirector.LogLines on the entries Readdir returns.
LogLines(dirEntries, startTs, numBytes) ==
    LET fis == SortByNameDesc(SelectSeq(dirEntries,
                                        LAMBDA fi : fi.regular /\ logFileNameRe(fi.name)))
        n   == Len(fis)
    IN IF n = 0 THEN NoRet
       ELSE IF startTs = 0 THEN recentLoop(fis, 0, numBytes, NoRet)
       ELSE IF startTs > 0
       THEN LET start == Search(fis, startTs, FALSE, 0, n)
            IN afterLoop(fis, IF start = n THEN n - 1 ELSE start, startTs, numBytes, NoRet)
       ELSE beforeLoop(fis, Search(fis, -startTs, TRUE, 0, n), -startTs, numBytes, NoRet)

(***************************************************************************)
(* SpecLines: a process writes its log directory (lines of the logger,     *)
(* text of C code, rotations, as seconds pass), and then LogLines is       *)
(* called on it.  The process may be at its ninth file, the older ones     *)
(* recycled.                                                               *)
(***************************************************************************)
StartSeqs == {1, 9}

\* numBytes of the calls.
Budgets == {0, MaxBudget \div 2, MaxBudget}

\* startTs of the calls.
StartTimes ==
    {0} \cup {Epoch + k : k \in 0..MaxTicks} \cup {-(Epoch + k) : k \in 0..MaxTicks}

\* fmt.Sprintf("%s_%s_%d.log", l.startTime.Format(...), time.Now().Format(...),
\* l.numLogFiles)
LogFileBase(start, now, n) ==
    FormatFileTime(start) \o <<"_">> \o FormatFileTime(now) \o <<"_">> \o Itoa(n)
      \o <<".", "l", "o", "g">>

NewEntry(start, now, n) ==
    [name |-> LogFileBase(start, now, n), regular |-> TRUE, lines |-> <<>>,
     created |-> now, seq |-> n]

\* The line of the standard logger for a record of level 0 and text "a"
\* from file "m": the time, fileLinePrefix, COLOR_WARNING, the text,
\* COLOR_NONE.
LoggerLine(now) ==
    FormatLineTime(now)
      \o <<" ", "[", "m", "]", " ", "ESC", "[", "0", ";", "3", "3", "m", "a",
           "ESC", "[", "0", "m">>

\* What C code writes to stdout: a line of text, and a line that begins with
\* digits in the shape of a time that is no time (the 30th of February).
RawLines ==
    {<<" ", "#">>,
     <<"2", "0", "1", "8", "/", "0", "2", "/", "3", "0", " ",
       "1", "0", ":", "0", "0", ":", "0", "0", " ", "#">>}

\* fmt.Sprintf("Redirecting log to '%s'.\n", logFileBase), without the newline.
RedirectNote(logFileBase) ==
    <<"R", "e", "d", "i", "r", "e", "c", "t", "i", "n", "g", " ", "l", "o", "g", " ",
      "t", "o", " ", "'">> \o logFileBase \o <<"'", ".">>

\* The lines written so far, the notes of the redirects aside.
NumLinesL == LET n[i \in 0..Len(entries)] ==
                   IF i = 0 THEN 0
                   ELSE n[i - 1] + Len(SelectSeq(entries[i].lines,
                                                 LAMBDA x : Head(x) # "R"))
             IN n[Len(entries)]

\* dir.Readdir(0): the log files and the "latest" symlink to the newest.
Readdir ==
    entries \o <<[name |-> <<"l", "a", "t", "e", "s", "t">>, regular |-> FALSE,
                  lines |-> entries[Len(entries)].lines,
                  created |-> entries[Len(entries)].created,
                  seq |-> entries[Len(entries)].seq]>>

InitLines ==
    /\ logCh = <<>> /\ logChClosed = FALSE /\ droppedLogLines = 0
    /\ pcProcessLogs = "recv" /\ le = NoEntry /\ dropped = 0
    /\ lastLogLine = "" /\ lastLogLineRepeatCount = 0
    /\ logOutput = "lr" /\ lr = "set" /\ lrLogCh = <<>> /\ lrLogChClosed = FALSE
    /\ pcWriteLog = "recv" /\ data = <<>>
    /\ l = [logFileName |-> 1, bytesWritten |-> 0, numLogFiles |-> 1]
    /\ fs = [files |-> (1 :> 0), order |-> <<1>>, latest |-> 1, stdout |-> 1,
             ptrFault |-> FALSE]
    /\ ioFaults = 0
    /\ cycle = NoCycle
    /\ pcT = [t \in Threads |-> "idle"] /\ callT = [t \in Threads |-> ""]
    /\ proc = "running"
    /\ out = <<>> /\ disk = <<>> /\ handled = <<>>
    /\ nSubmitted = 0 /\ nDropped = 0 /\ closeReturned = FALSE
    /\ clock = Epoch
    /\ seqNo \in StartSeqs
    /\ startTime = Epoch - (seqNo - 1)
    /\ entries = <<NewEntry(startTime, clock, seqNo)>>
    /\ query = NoQuery /\ ret = NoRet
    /\ NoNlog

otherVars == <<nlogVars, chanVars, consVars, redirVars, writerVars, diskVars, threadVars, proc,
               histVars>>

\* A second passes.
Tick ==
    /\ ~query.made /\ clock < Epoch + MaxTicks
    /\ clock' = clock + 1
    /\ UNCHANGED <<otherVars, startTime, seqNo, entries, query, ret>>

\* A line reaches the active file.
AppendLine(line) ==
    /\ ~query.made /\ NumLinesL < MaxLinesL
    /\ entries' = [entries EXCEPT ![Len(entries)].lines = Append(@, line)]
    /\ UNCHANGED <<otherVars, clock, startTime, seqNo, query, ret>>

\* writeLog writes a line of the logger, formatted now.
WriteLoggerLine == AppendLine(LoggerLine(clock))

\* C code writes a line to stdout.
WriteRawLine(line) == AppendLine(line)

\* redirectToNewFile, the open successful: the note of the redirect goes to
\* the file that was active, and the new file is the active one.
Rotate ==
    /\ ~query.made /\ Len(entries) < MaxFilesL
    /\ seqNo' = seqNo + 1
    /\ entries' = Append([entries EXCEPT ![Len(entries)].lines =
                             Append(@, RedirectNote(LogFileBase(startTime, clock,
                                                                seqNo + 1)))],
                         NewEntry(startTime, clock, seqNo + 1))
    /\ UNCHANGED <<otherVars, clock, startTime, query, ret>>

\* LogLines(startTs, numBytes)
CallLogLines(startTs, numBytes) ==
    /\ ~query.made
    /\ query' = [startTs |-> startTs, numBytes |-> numBytes, made |-> TRUE]
    /\ ret' = LogLines(Readdir, startTs, numBytes)
    /\ UNCHANGED <<otherVars, clock, startTime, seqNo, entries>>

NextLines ==
    \/ Tick
    \/ WriteLoggerLine
    \/ \E line \in RawLines : WriteRawLine(line)
    \/ Rotate
    \/ \E startTs \in StartTimes, numBytes \in Budgets : CallLogLines(startTs, numBytes)

SpecLines == InitLines /\ [][NextLines]_vars

(***************************************************************************)
(* SpecNlog: callers of Nlog / Nlogf in the process of Spec.  Every call   *)
(* site passes its own n; processLogs is not scheduled, so that logCh      *)
(* fills and logText goes on to drop.                                      *)
(***************************************************************************)
\* flag "v", the default of C.verbose_log_level.
VerboseLevel == 1

\* The levels the calls pass: one within the verbosity limit, one beyond.
NlogLevels == {VerboseLevel, VerboseLevel + 1}

InitNlog ==
    /\ logCh = <<>> /\ logChClosed = FALSE /\ droppedLogLines = 0
    /\ pcProcessLogs = "recv" /\ le = NoEntry /\ dropped = 0
    /\ lastLogLine = "" /\ lastLogLineRepeatCount = 0
    /\ logOutput = "lr" /\ lr = "set" /\ lrLogCh = <<>> /\ lrLogChClosed = FALSE
    /\ pcWriteLog = "recv" /\ data = <<>>
    /\ l = [logFileName |-> 1, bytesWritten |-> 0, numLogFiles |-> 1]
    /\ fs = [files |-> (1 :> 0), order |-> <<1>>, latest |-> 1, stdout |-> 1,
             ptrFault |-> FALSE]
    /\ ioFaults = 0
    /\ cycle = NoCycle
    /\ pcT = [t \in Threads |-> "idle"] /\ callT = [t \in Threads |-> ""]
    /\ proc = "running"
    /\ out = <<>> /\ disk = <<>> /\ handled = <<>>
    /\ nSubmitted = 0 /\ nDropped = 0 /\ closeReturned = FALSE
    /\ NoLines
    /\ nlogMap = [s \in Sites |-> 0]
    /\ nlogN \in [Sites -> 1..MaxN]
    /\ nlogT = [t \in Threads |-> NoCall]
    /\ nlogCalls = {} /\ nlogLogged = {}

\* nlogMu.Lock(); defer nlogMu.Unlock(); nlogMap[key]++; return nlogMap[key]:
\* one step, the mutex held.  The value returned is nlogMap'[key].
incNLogCnt(key) == nlogMap' = [nlogMap EXCEPT ![key] = @ + 1]

\* Nlog(n, level, v...) / Nlogf, from call site `site`, to the return of
\* incNLogCnt: prefix := getFileLinePrefix(); cnt := incNLogCnt(prefix).
Nlog(t, site, level) ==
    /\ proc = "running" /\ pcT[t] = "idle" /\ Cardinality(nlogCalls) < MaxCalls
    /\ incNLogCnt(site)
    /\ LET c == [site |-> site, level |-> level, cnt |-> nlogMap'[site]]
       IN /\ nlogT' = [nlogT EXCEPT ![t] = c]
          /\ nlogCalls' = nlogCalls \cup {c}
    /\ pcT' = [pcT EXCEPT ![t] = "Nlog"]
    /\ UNCHANGED <<lineVars, chanVars, consVars, redirVars, writerVars, diskVars, callT,
                   proc, histVars, nlogN, nlogLogged>>

\* Vlog(level, v...): if level <= VerboseLevel() { logText(...) }
Vlog(level, text) ==
    IF level <= VerboseLevel THEN logText(text, level)
    ELSE UNCHANGED <<nSubmitted, proc, logCh, droppedLogLines, nDropped>>

\* Nlog, the rest: if cnt%n == 1 { Vlog(level, v...) }, and the return.
NlogVlog(t) ==
    /\ proc = "running" /\ pcT[t] = "Nlog"
    /\ LET c == nlogT[t]
       IN IF c.cnt % nlogN[c.site] = 1
          THEN /\ Vlog(c.level, "a")
               /\ nlogLogged' = IF c.level <= VerboseLevel THEN nlogLogged \cup {c}
                                ELSE nlogLogged
          ELSE UNCHANGED <<nSubmitted, proc, logCh, droppedLogLines, nDropped, nlogLogged>>
    /\ nlogT' = [nlogT EXCEPT ![t] = NoCall]
    /\ pcT' = [pcT EXCEPT ![t] = "idle"]
    /\ UNCHANGED <<lineVars, logChClosed, consVars, redirVars, writerVars, diskVars, callT,
                   out, disk, handled, closeReturned, nlogMap, nlogN, nlogCalls>>

NextNlog ==
    \/ \E t \in Threads, site \in Sites, level \in NlogLevels : Nlog(t, site, level)
    \/ \E t \in Threads : NlogVlog(t)

SpecNlog == InitNlog /\ [][NextNlog]_vars

(***************************************************************************)
(* What the history variables hold.                                        *)
(***************************************************************************)
RECURSIVE SumN(_)
SumN(s) == IF s = <<>> THEN 0 ELSE Head(s).n + SumN(Tail(s))

\* The sum of the counts of the "N log lines were dropped" warnings in s.
WarnSum(s) == SumN(SelectSeq(s, LAMBDA x : x.kind = "dropped"))

\* The sum of the counts of the "Last line repeated N times" notices in s.
NoticeSum(s) == SumN(SelectSeq(s, LAMBDA x : x.kind = "repeated"))

\* The number of log lines proper in s.
NumLines(s) == Len(SelectSeq(s, LAMBDA x : x.kind = "line"))

\* Length of the maximal run of equal texts of h that ends at position j.
RECURSIVE RunLen(_, _)
RunLen(h, j) ==
    IF j = 0 THEN 0
    ELSE IF j > 1 /\ h[j - 1] = h[j] THEN RunLen(h, j - 1) + 1 ELSE 1

\* What repeat collapsing is to emit for the first i texts of h: each run
\* once, and a notice of K-1 before the next run when the run had K > 1.
RECURSIVE Collapsed(_, _)
Collapsed(h, i) ==
    IF i = 0 THEN <<>>
    ELSE IF i > 1 /\ h[i - 1] = h[i] THEN Collapsed(h, i - 1)
    ELSE Collapsed(h, i - 1)
           \o (IF i > 1 /\ RunLen(h, i - 1) > 1
               THEN <<[kind |-> "repeated", text |-> "", n |-> RunLen(h, i - 1) - 1]>>
               ELSE <<>>)
           \o <<[kind |-> "line", text |-> h[i], n |-> 0]>>

\* The lines and notices of s, without the drop warnings.
Emitted(s) ==
    LET e == SelectSeq(s, LAMBDA x : x.kind # "dropped")
    IN [i \in 1..Len(e) |-> [kind |-> e[i].kind, text |-> e[i].text, n |-> e[i].n]]

\* The chunks of s that the logger handed to the redirector.
SentToRedirector(s) ==
    LET e == SelectSeq(s, LAMBDA x : x.to = "lr")
    IN [i \in 1..Len(e) |-> Line(e[i].kind, e[i].text, e[i].level, e[i].n)]

SameSeq(a, b) == Len(a) = Len(b) /\ \A i \in 1..Len(a) : a[i] = b[i]

NoEmptyText == \A i \in 1..Len(handled) : handled[i] # ""

(***************************************************************************)
(* The claims.                                                             *)
(***************************************************************************)

C2_DropAccountingExact ==
    /\ WarnSum(out) + dropped + droppedLogLines = nDropped
    /\ pcProcessLogs \in {"recv", "dedup", "notice", "line", "done"} => dropped = 0
    /\ pcProcessLogs = "warn" => dropped > 0
    /\ \A i \in 1..Len(out) : out[i].kind = "dropped" => out[i].n > 0

\* C2 witness: a warning reporting every drop so far has been emitted and
\* the counter is back at zero.
C2_Witness ==
    /\ nDropped > 0
    /\ WarnSum(out) = nDropped
    /\ droppedLogLines = 0
    /\ pcProcessLogs = "dedup"

\* C3: repeat collapsing, as claimed: whenever processLogs is between
\* records, what it has emitted (drop warnings aside) is every run of K equal
\* consecutive texts once, with a notice of K-1 before the next different
\* line exactly when K > 1, and the repeat counter holds the last run's K-1.
C3_RepeatCollapsing ==
    pcProcessLogs \in {"recv", "done"} =>
        /\ SameSeq(Emitted(out), Collapsed(handled, Len(handled)))
        /\ lastLogLineRepeatCount = RunLen(handled, Len(handled)) - (IF handled = <<>> THEN 0 ELSE 1)

\* C4: the pending repeat notice is flushed on shutdown, as claimed: once
\* processLogs has signalled completion, every record it suppressed as a
\* repeat has been reported in a notice (here for runs of non-empty texts).
C4_PendingNoticeFlushed ==
    (pcProcessLogs = "done" /\ NoEmptyText) =>
        Len(handled) = NumLines(out) + NoticeSum(out)

\* C5: two-phase shutdown completeness, as claimed: when Close has
\* returned, processLogs and writeLog have ended, both channels are empty,
\* every chunk handed to the redirector is in the log, every drop is in the
\* warnings or the drop counter, and every accepted record is accounted for
\* by its line or by a repeat notice (here for runs of non-empty texts).
C5_ShutdownComplete ==
    (closeReturned /\ NoEmptyText) =>
        /\ pcProcessLogs = "done" /\ pcWriteLog = "done"
        /\ logCh = <<>> /\ lrLogCh = <<>> /\ data = <<>>
        /\ SameSeq(disk, SentToRedirector(out))
        /\ nDropped = WarnSum(out) + droppedLogLines
        /\ Len(handled) = NumLines(out) + NoticeSum(out)

\* C6: shutdown is idempotent, as claimed: no Close made after a Close has
\* returned ends the process with "close of closed channel".
C6_CloseIdempotent ==
    closeReturned => proc # "panic: close of closed channel"

\* C7: LogRedirector.Write is non-blocking, as claimed: whenever
\* processLogs is at a log.Print whose output is the redirector, it can take
\* that step, whatever l.logCh holds.
C7_WriteNeverBlocks ==
    (proc = "running" /\ pcProcessLogs \in {"warn", "notice", "line"} /\ logOutput = "lr")
        => ENABLED processLogs

\* C8: Fatal flushes before the process exits, as claimed: when os.Exit
\* is reached, processLogs and writeLog have ended with their channels empty
\* and a line of level -1, the fatal record, has been emitted (here for runs
\* of non-empty texts).
C8_FatalFlushed ==
    (proc = "exited" /\ NoEmptyText) =>
        /\ pcProcessLogs = "done" /\ logCh = <<>>
        /\ pcWriteLog = "done" /\ lrLogCh = <<>>
        /\ \E i \in 1..Len(out) : out[i].kind = "line" /\ out[i].level = -1

\* C9: rotation is checkpointed: a write cycle calls redirectToNewFile only
\* if its write succeeded, l.bytesWritten crossed a multiple of
\* MaxLogFileSize / 10 in it and its stat of the active file showed at least
\* MaxLogFileSize; a cycle whose bytes cross no multiple neither stats nor
\* rotates; and after a rotation that opened the new file l.bytesWritten is 0.
C9_RotationCheckpointed ==
    LET block   == MaxLogFileSize \div 10
        crossed == /\ cycle.wrote = cycle.n
                   /\ ((cycle.before + cycle.n) \div block) # (cycle.before \div block)
    IN /\ cycle.rotated => crossed /\ cycle.statted /\ cycle.size >= MaxLogFileSize
       /\ ~crossed => ~cycle.statted /\ ~cycle.rotated
       /\ cycle.statted /\ ~cycle.rotated => l.bytesWritten = cycle.before + cycle.n
       /\ cycle.rotated /\ cycle.opened => l.bytesWritten = 0

\* C9 witness: a write cycle crossed a checkpoint, found the file full and
\* rotated to file 2.
C9_Witness ==
    /\ cycle.rotated /\ cycle.opened
    /\ cycle.size >= MaxLogFileSize
    /\ l.logFileName = 2 /\ l.bytesWritten = 0

\* C10, as claimed: once the redirector is initialized, whatever failed,
\* there is an active file, it exists, and "latest" targets it.
C10_LatestAlwaysTargetsActive ==
    lr = "set" =>
        /\ l.logFileName # NoFile
        /\ l.logFileName \in DOMAIN fs.files
        /\ fs.latest = l.logFileName

\* C10, amended: once the redirector is initialized with its first open
\* successful, l.logFileName names one active file, which exists; "latest"
\* targets it unless os.Remove of the existing pointer or os.Symlink failed
\* in the last redirect that opened a file, and then the pointer is absent or
\* targets an older file.
C10_LatestTargetsActiveUnlessUpdateFailed ==
    (lr = "set" /\ l.logFileName # NoFile) =>
        /\ l.logFileName \in DOMAIN fs.files
        /\ ~fs.ptrFault => fs.latest = l.logFileName
        /\ fs.latest # l.logFileName => fs.latest = NoFile \/ fs.latest < l.logFileName

\* C10 witness: a rotation opened file 2 and moved the pointer to it.
C10_Witness ==
    /\ lr = "set" /\ cycle.rotated
    /\ l.logFileName = 2 /\ fs.latest = 2 /\ ~fs.ptrFault
    /\ 1 \in DOMAIN fs.files

\* The files the last recycleOldLogFiles removed.
Deleted == (DOMAIN cycle.snap.files) \ (DOMAIN fs.files)

\* The entries of the snapshot that the deletion loop could remove, in
\* ascending modification time.
Removable ==
    SelectSeq(cycle.snap.order, LAMBDA f : f # cycle.active /\ f \notin cycle.rmFail)

\* The total that is left when the first k removable files are gone.
RECURSIVE LeftAfter(_)
LeftAfter(k) ==
    IF k = 0 THEN cycle.total ELSE LeftAfter(k - 1) - cycle.snap.files[Removable[k]]

C12_RecyclerOnlyLogFiles ==
    cycle.rotated =>
        /\ cycle.total = SumSizes(cycle.snap.files,
                                  {f \in DOMAIN cycle.snap.files : IsLogFile(f)})
        /\ \A f \in Deleted : IsLogFile(f)

(***************************************************************************)
(* What a LogLines call returned, against the directory it read.           *)
(***************************************************************************)
\* The sum of the lengths of the returned lines.
RECURSIVE SumLen(_)
SumLen(lines) == IF lines = <<>> THEN 0 ELSE Len(Head(lines).text) + SumLen(Tail(lines))

\* The log file of the directory with this name.
FileOf(name) == entries[CHOOSE k \in 1..Len(entries) : entries[k].name = name]

\* The line of the directory that a returned line was read from.
Orig(x) == FileOf(x.name).lines[x.i]

\* Where each line of the files es, oldest file first, is.
RECURSIVE ChronOf(_)
ChronOf(es) ==
    IF es = <<>> THEN <<>>
    ELSE LET e == es[Len(es)]
         IN ChronOf(SubSeq(es, 1, Len(es) - 1))
              \o [j \in 1..Len(e.lines) |-> [name |-> e.name, i |-> j]]

\* Where the returned lines were read.
Origins(lines) == [k \in 1..Len(lines) |-> [name |-> lines[k].name, i |-> lines[k].i]]

IsSuffix(a, b) ==
    /\ Len(a) <= Len(b)
    /\ \A k \in 1..Len(a) : a[k] = b[Len(b) - Len(a) + k]

\* Every returned line is the line it was read from, trimmed and without
\* colours.
ReturnedClean == \A k \in 1..Len(ret.lines) : ret.lines[k].text = Clean(Orig(ret.lines[k]))

\* The lines of file e that precede its first line at or after time t.
RECURSIVE HeadBefore(_, _, _)
HeadBefore(e, j, t) ==
    IF j > Len(e.lines) \/ LogLineTs(e.lines[j]) >= t THEN <<>>
    ELSE <<[name |-> e.name, i |-> j]>> \o HeadBefore(e, j + 1, t)

\* C13: retrieval respects the byte budget, as claimed: the lengths of
\* the lines LogLines(startTs, numBytes) returns, as returned, sum to at most
\* numBytes.
C13_WithinBudget ==
    query.made => SumLen(ret.lines) <= query.numBytes

\* C14: LogLines(T, B) with T > 0, as claimed: the scan starts at the
\* newest file created at or before T (the oldest when there is none), and
\* the result is the run of the lines of the directory, oldest first, that
\* begins at the first line with a time at or after T, every line of it with a
\* time at or after T.
C14_LinesAfter ==
    (query.made /\ query.startTs > 0) =>
        LET chron == ChronOf(entries)
            hits  == {k \in 1..Len(chron) : LogLineTs(Orig(chron[k])) >= query.startTs}
            first == CHOOSE k \in hits : \A h \in hits : k <= h
            older == SelectSeq(entries, LAMBDA e : e.created <= query.startTs)
        IN /\ ReturnedClean
           /\ ret.read # <<>>
           /\ ret.read[1] = (IF older = <<>> THEN entries[1].name
                             ELSE older[Len(older)].name)
           /\ IF hits = {} THEN ret.lines = <<>>
              ELSE /\ ret.lines # <<>>
                   /\ first + Len(ret.lines) - 1 <= Len(chron)
                   /\ \A j \in 1..Len(ret.lines) :
                         /\ Origins(ret.lines)[j] = chron[first + j - 1]
                         /\ LogLineTs(Orig(ret.lines[j])) >= query.startTs

\* C15: LogLines(-T, B) with T > 0, as claimed: nothing is returned when
\* no file was created before T; otherwise the result is a tail of the lines,
\* oldest file first, of the files created before T, the newest of them cut at
\* its first line at or after T, and every line returned is before T.
C15_LinesBefore ==
    (query.made /\ query.startTs < 0) =>
        LET t     == -query.startTs
            older == SelectSeq(entries, LAMBDA e : e.created < t)
        IN /\ ReturnedClean
           /\ IF older = <<>> THEN ret.lines = <<>>
              ELSE /\ IsSuffix(Origins(ret.lines),
                               ChronOf(SubSeq(older, 1, Len(older) - 1))
                                 \o HeadBefore(older[Len(older)], 1, t))
                   /\ \A j \in 1..Len(ret.lines) : LogLineTs(Orig(ret.lines[j])) < t

\* The lengths of all lines, as returned, of the named files.
RECURSIVE LenOfFiles(_)
LenOfFiles(names) ==
    IF names = <<>> THEN 0
    ELSE LET e == FileOf(Head(names))
         IN SumLen([j \in 1..Len(e.lines) |-> [text |-> Clean(e.lines[j])]])
              + LenOfFiles(Tail(names))

\* C16: LogLines(0, B), as claimed: the result is a tail of the lines of
\* all log files, oldest file first; the files are opened newest first, and
\* none is opened once the lines of the newer ones have used up B.
C16_MostRecent ==
    (query.made /\ query.startTs = 0) =>
        /\ ReturnedClean
        /\ IsSuffix(Origins(ret.lines), ChronOf(entries))
        /\ Len(ret.read) \in 1..Len(entries)
        /\ \A k \in 1..Len(ret.read) :
              /\ ret.read[k] = entries[Len(entries) + 1 - k].name
              /\ k > 1 => LenOfFiles(SubSeq(ret.read, 1, k - 1)) < query.numBytes

\* C17, as claimed: a line without a parseable time is returned neither
\* by LogLines(T, B) with T > 0 nor, from the first file it scans, by
\* LogLines(-T, B).
C17_UnparseableExcluded ==
    query.made =>
        /\ query.startTs > 0 =>
             \A k \in 1..Len(ret.lines) : LogLineTs(Orig(ret.lines[k])) > 0
        /\ query.startTs < 0 =>
             \A k \in 1..Len(ret.lines) :
                ret.lines[k].name = ret.read[1] => LogLineTs(Orig(ret.lines[k])) > 0

\* C17, amended: a line without a parseable time counts as of time zero
\* or less.  LogLines(T, B), T > 0, passes over it only while it looks, in a
\* file created before T, for the first line at or after T: such a line is
\* returned only from a file created at or after T or after a line at or
\* after T of its file, and from the first line returned of a file every
\* line of the file is returned, to its end or until B is used up.
\* LogLines(-T, B) never stops at such a line: from the first file it scans
\* it returns only lines before the first line at or after T, and with a line
\* returned every later one of these, parseable or not.
C17_UnparseableSkippedOnlyBeforeFirstMatch ==
    query.made =>
        /\ query.startTs > 0 =>
             /\ \A k \in 1..Len(ret.lines) :
                   LET x == ret.lines[k]
                   IN /\ LogLineTs(Orig(x)) <= 0 =>
                           \/ LogFileStartTs(x.name) >= query.startTs
                           \/ \E j \in 1..(x.i - 1) :
                                 LogLineTs(FileOf(x.name).lines[j]) >= query.startTs
                      /\ \/ x.i = Len(FileOf(x.name).lines)
                         \/ k = Len(ret.lines) /\ SumLen(ret.lines) >= query.numBytes
                         \/ /\ k < Len(ret.lines)
                            /\ ret.lines[k + 1].name = x.name
                            /\ ret.lines[k + 1].i = x.i + 1
        /\ query.startTs < 0 =>
             \A k \in 1..Len(ret.lines) :
                LET x    == ret.lines[k]
                    head == HeadBefore(FileOf(x.name), 1, -query.startTs)
                IN x.name = ret.read[1] =>
                      /\ x.i <= Len(head)
                      /\ x.i < Len(head) =>
                            /\ k < Len(ret.lines)
                            /\ ret.lines[k + 1].name = x.name
                            /\ ret.lines[k + 1].i = x.i + 1

\* C17 witness: LogLines(T, B), T > 0, returned a line without a time from
\* a file created before T, after the first line at or after T of that file.
C17_Witness ==
    /\ query.made /\ query.startTs > 0
    /\ \E k \in 2..Len(ret.lines) :
          /\ LogLineTs(Orig(ret.lines[k])) = 0
          /\ LogFileStartTs(ret.lines[k].name) < query.startTs
          /\ ret.lines[k - 1].name = ret.lines[k].name
          /\ LogLineTs(Orig(ret.lines[k - 1])) >= query.startTs

\* The times whose LOG_LINE_TIME_FORMAT form the line begins with.
StampsOf(line) ==
    {t \in (Epoch - 1)..(Epoch + MaxTicks + 1) :
        Len(line) >= 19 /\ SubSeq(line, 1, 19) = FormatLineTime(t)}

\* C18: LogLineTs, as claimed: 0 for every line of the directory that does
\* not begin with a time, and for one that does the Unix time of that local
\* time.
C18_LineTs ==
    \A k \in 1..Len(entries) : \A j \in 1..Len(entries[k].lines) :
        LET line == entries[k].lines[j]
        IN IF StampsOf(line) = {} THEN LogLineTs(line) = 0
           ELSE \A t \in StampsOf(line) : LogLineTs(line) = t

\* C19: LogFileStartTs of a log file's name is the Unix time at which the
\* file was created, the second time of the name read in local time,
\* whatever the first time and the sequence number of the name are.
C19_FileStartTs ==
    \A k \in 1..Len(entries) :
        LET e == entries[k]
        IN /\ logFileNameRe(e.name)
           /\ LogFileStartTs(e.name) = e.created
           /\ LogFileStartTs(LogFileBase(clock, e.created, e.seq + 1)) = e.created

\* C19 witness: a file whose name has another first time than second, and
\* a sequence number of two digits.
C19_Witness ==
    \E k \in 1..Len(entries) :
        /\ entries[k].seq = 10
        /\ entries[k].created > Epoch
        /\ startTime < Epoch
        /\ LogFileStartTs(entries[k].name) = entries[k].created

(***************************************************************************)
(* The chunks Write accepted, against the chunks on disk.                  *)
(***************************************************************************)
\* The chunks that LogRedirector.Write put on l.logCh, in the order of the
\* sends: the lines the logger printed to the redirector, but for one whose
\* send panicked.
Accepted ==
    LET sent == SelectSeq(out, LAMBDA o : o.to = "lr")
        n    == IF proc = "panic: send on closed channel" /\ lrLogChClosed
                      /\ logOutput = "lr"
                THEN Len(sent) - 1 ELSE Len(sent)
    IN [k \in 1..n |-> Line(sent[k].kind, sent[k].text, sent[k].level, sent[k].n)]

\* C20: the writer's coalescing preserves the byte stream.  With a file
\* open and the writes successful, the chunks on disk, the chunks held by
\* the writer and the chunks queued are, in this order, the chunks accepted,
\* none lost, doubled or out of order; once the writer has ended, all of
\* them are on disk.  Every write is issued with the queue seen empty and
\* holds all chunks received since the write before, in the order received.
C20_CoalescingPreservesStream ==
    /\ [](/\ disk \o data \o lrLogCh = Accepted
          /\ pcWriteLog = "done" => disk = Accepted)
    /\ [][disk' # disk =>
            /\ lrLogCh = <<>> /\ data # <<>>
            /\ disk' = disk \o data
            /\ data' = <<>>
            /\ cycle'.n = Len(data) * LineLen /\ cycle'.wrote = cycle'.n]_vars

\* C20 witness: the writer has ended after a write of two chunks, and the
\* disk holds three chunks.
C20_Witness ==
    /\ pcWriteLog = "done"
    /\ cycle.n = 2 * LineLen /\ cycle.wrote = cycle.n
    /\ Len(disk) = 3 /\ disk = Accepted

(***************************************************************************)
(* Nlog: the calls of a call site, by the count incNLogCnt gave them.      *)
(***************************************************************************)
\* The calls that have not returned.
NlogInFlight == {nlogT[t] : t \in Threads} \ {NoCall}

\* The calls made from a call site.
CallsOf(site) == {c \in nlogCalls : c.site = site}

\* C21: Nlog logs one in every n calls of a call site, as claimed.  The
\* counter of a call site is the number of calls made from it, the calls
\* numbered 1, 2, ... whatever their level; and a call that has returned
\* reached logText exactly if its level is within the verbosity limit and
\* its number is one of 1, n + 1, 2n + 1, ..., every number when n = 1.
C21_NlogOneInN ==
    /\ \A s \in Sites :
          /\ nlogMap[s] = Cardinality(CallsOf(s))
          /\ {c.cnt : c \in CallsOf(s)} = 1..nlogMap[s]
    /\ \A c \in nlogCalls \ NlogInFlight :
          c \in nlogLogged <=>
             /\ c.level <= VerboseLevel
             /\ (c.cnt - 1) % nlogN[c.site] = 0

====
